---------------------------- MODULE Spec2Model ----------------------------
(***************************************************************************)
(* Model of ordpool-parser's InscriptionParserService                      *)
(* (inscription-parser.service.ts): parseInscriptions walks the inputs of  *)
(* a transaction, parseInscriptionsWithinWitness scans the concatenated    *)
(* witness bytes of one input for inscription marks, and                   *)
(* extractInscriptionData reads the fields and the body of one envelope.   *)
(*                                                                         *)
(* Byte buffers are sequences of 0..255; a position p of the code (0-based)*)
(* is element p+1 of the sequence.  JavaScript strings are sequences of    *)
(* character codes.  The helper module inscription-parser.service.helper   *)
(* and the CBOR decoder are not part of the sources at hand; their         *)
(* operators are modelled from the specification document.                 *)
(***************************************************************************)
EXTENDS Integers, Sequences, FiniteSets, TLC

\* ------------------------------------------------------------------------
\* Bounds of the model
\* ------------------------------------------------------------------------
MaxInputs == 2

MaxEnvelopes == 2

MaxCalls == 3

\* ------------------------------------------------------------------------
\* Constants of the byte format (helper module, modelled from the spec)
\* ------------------------------------------------------------------------
OP_0 == 0

OP_ENDIF == 104

OP_PUSHBYTES_MAX == 75

OP_PUSHDATA1 == 76

OP_PUSHDATA2 == 77

OP_PUSHDATA4 == 78

\* knownFields
content_type == 1

pointer_tag == 2

parent_tag == 3

metadata == 5

metaprotocol == 7

content_encoding == 9

\* OP_FALSE OP_IF OP_PUSHBYTES_3 'o' 'r' 'd'
inscriptionMark == <<0, 99, 3, 111, 114, 100>>

\* ------------------------------------------------------------------------
\* Generic sequence helpers
\* ------------------------------------------------------------------------
RECURSIVE Flatten(_)
Flatten(ss) ==
  IF ss = <<>> THEN <<>> ELSE Head(ss) \o Flatten(Tail(ss))

SetMin(S) == CHOOSE x \in S : \A y \in S : x <= y

\* ------------------------------------------------------------------------
\* Byte/hex utilities (helper module, modelled from the spec)
\* ------------------------------------------------------------------------
\* the character code of the hex digit of a value 0..15 ('0'..'9', 'a'..'f')
HexDigit(n) == IF n < 10 THEN 48 + n ELSE 87 + n

\* parseInt(c, 16) of one hex character
HexValue(c) == IF c >= 48 /\ c <= 57 THEN c - 48
               ELSE IF c >= 97 /\ c <= 102 THEN c - 87
               ELSE c - 55

\* the hex string of a byte sequence (how the transactions' witness items are written)
BytesToHex(bytes) ==
  [k \in 1..(2 * Len(bytes)) |->
     IF k % 2 = 1 THEN HexDigit(bytes[(k + 1) \div 2] \div 16)
                  ELSE HexDigit(bytes[k \div 2] % 16)]

\* witness.join('')
join(witness) == Flatten(witness)

\* hexStringToUint8Array: every two hex characters make one byte
hexStringToUint8Array(hex) ==
  [k \in 1..(Len(hex) \div 2) |-> 16 * HexValue(hex[2 * k - 1]) + HexValue(hex[2 * k])]

\* uint8ArrayToSingleByteChars: one character per byte, String.fromCharCode(byte)
uint8ArrayToSingleByteChars(bytes) == [k \in 1..Len(bytes) |-> bytes[k] % 65536]


\* utf8BytesToUtf16String: UTF-8 decoding of one- and two-byte sequences; a byte
\* that starts no such sequence decodes to U+FFFD
RECURSIVE utf8BytesToUtf16String(_)
utf8BytesToUtf16String(bytes) ==
  IF bytes = <<>> THEN <<>>
  ELSE IF bytes[1] < 128
       THEN <<bytes[1]>> \o utf8BytesToUtf16String(Tail(bytes))
  ELSE IF bytes[1] >= 194 /\ bytes[1] <= 223 /\ Len(bytes) >= 2
          /\ bytes[2] >= 128 /\ bytes[2] <= 191
       THEN <<(bytes[1] - 192) * 64 + (bytes[2] - 128)>>
            \o utf8BytesToUtf16String(Tail(Tail(bytes)))
  ELSE <<65533>> \o utf8BytesToUtf16String(Tail(bytes))

\* the character of a base64 digit 0..63
Base64Char(n) == IF n < 26 THEN 65 + n
                 ELSE IF n < 52 THEN 97 + (n - 26)
                 ELSE IF n < 62 THEN 48 + (n - 52)
                 ELSE IF n = 62 THEN 43 ELSE 47

\* encodeToBase64 (btoa) of a string of single-byte characters
RECURSIVE encodeToBase64(_)
encodeToBase64(str) ==
  IF str = <<>> THEN <<>>
  ELSE IF Len(str) = 1
       THEN <<Base64Char(str[1] \div 4), Base64Char((str[1] % 4) * 16), 61, 61>>
  ELSE IF Len(str) = 2
       THEN <<Base64Char(str[1] \div 4),
              Base64Char((str[1] % 4) * 16 + str[2] \div 16),
              Base64Char((str[2] % 16) * 4), 61>>
  ELSE <<Base64Char(str[1] \div 4),
         Base64Char((str[1] % 4) * 16 + str[2] \div 16),
         Base64Char((str[2] % 16) * 4 + str[3] \div 64),
         Base64Char(str[3] % 64)>>
       \o encodeToBase64(SubSeq(str, 4, Len(str)))

\* ------------------------------------------------------------------------
\* Pushdata Reader (helper module, modelled from the spec, section 4.1)
\* ------------------------------------------------------------------------
PushFailed(p) == [ok |-> FALSE, slice |-> <<>>, pointer |-> p]

\* n bytes at position p, or as many as the buffer still has
readBytesClamped(raw, p, n) ==
  LET end == IF p + n > Len(raw) THEN Len(raw) ELSE p + n
  IN  [ok |-> TRUE, slice |-> SubSeq(raw, p + 1, end), pointer |-> end]

\* n bytes at position p, or a failure when they run past the end of the buffer
readBytes(raw, p, n) ==
  IF p + n > Len(raw) THEN PushFailed(p)
  ELSE [ok |-> TRUE, slice |-> SubSeq(raw, p + 1, p + n), pointer |-> p + n]

\* the little-endian number in the n bytes at position p (p + n <= Len(raw))
RECURSIVE littleEndian(_, _, _)
littleEndian(raw, p, n) ==
  IF n = 0 THEN 0 ELSE raw[p + 1] + 256 * littleEndian(raw, p + 1, n - 1)

\* a push whose length is written in the n bytes after the opcode
readPushdataN(raw, p, n) ==
  IF p + 1 + n > Len(raw) THEN PushFailed(p)
  ELSE readBytes(raw, p + 1 + n, littleEndian(raw, p + 1, n))

\* readPushdata(raw, pointer): [slice, newPointer], or a failure (an exception)
readPushdata(raw, p) ==
  IF p >= Len(raw) THEN PushFailed(p)
  ELSE LET opcode == raw[p + 1] IN
       IF opcode = OP_0 THEN [ok |-> TRUE, slice |-> <<>>, pointer |-> p + 1]
       ELSE IF opcode >= 1 /\ opcode <= OP_PUSHBYTES_MAX THEN readBytes(raw, p + 1, opcode)
       ELSE IF opcode = OP_PUSHDATA1 THEN readPushdataN(raw, p, 1)
       ELSE IF opcode = OP_PUSHDATA2 THEN readPushdataN(raw, p, 2)
       ELSE IF opcode = OP_PUSHDATA4 THEN readPushdataN(raw, p, 4)
       ELSE PushFailed(p)

\* ------------------------------------------------------------------------
\* Envelope Scanner (helper module, modelled from the spec, section 4.2)
\* ------------------------------------------------------------------------
\* the positions at which the mark starts
MarkStarts(raw) ==
  {k \in 0..(Len(raw) - Len(inscriptionMark)) :
     SubSeq(raw, k + 1, k + Len(inscriptionMark)) = inscriptionMark}

\* getNextInscriptionMark(raw, startPosition): the position just past the first
\* mark that starts at or after startPosition, or -1
getNextInscriptionMark(raw, startPosition) ==
  LET found == {k \in MarkStarts(raw) : k >= startPosition}
  IN  IF found = {} THEN -1 ELSE SetMin(found) + Len(inscriptionMark)

\* ------------------------------------------------------------------------
\* Decompressor and metadata decoder (collaborators, modelled from the spec)
\* ------------------------------------------------------------------------
BrotliHeader == 11

BrotliTrailer == 3

\* brotliDecodeUint8Array: a partial function from streams to bytes.  The streams
\* of the model are a header byte, the stored bytes and a trailer byte; every
\* other byte sequence is no stream and the decoder fails (throws).
brotliDecodeUint8Array(bytes) ==
  IF Len(bytes) >= 2 /\ bytes[1] = BrotliHeader /\ bytes[Len(bytes)] = BrotliTrailer
  THEN [ok |-> TRUE, bytes |-> SubSeq(bytes, 2, Len(bytes) - 1)]
  ELSE [ok |-> FALSE, bytes |-> <<>>]

\* CBOR.decode of one data item: an unsigned integer below 24 (one byte), an
\* unsigned integer in one following byte (24), a text string of up to 23
\* single-byte characters (96..119); bytes are left over, bytes are missing or
\* the initial byte is none of these: a decode error (throws).
CBORdecode(bytes) ==
  LET err == [ok |-> FALSE, value |-> <<>>] IN
  IF bytes = <<>> THEN err
  ELSE IF bytes[1] < 24
       THEN IF Len(bytes) = 1 THEN [ok |-> TRUE, value |-> <<bytes[1]>>] ELSE err
  ELSE IF bytes[1] = 24
       THEN IF Len(bytes) = 2 THEN [ok |-> TRUE, value |-> <<bytes[2]>>] ELSE err
  ELSE IF bytes[1] >= 96 /\ bytes[1] <= 119
       THEN IF Len(bytes) = 1 + (bytes[1] - 96)
            THEN [ok |-> TRUE, value |-> SubSeq(bytes, 2, Len(bytes))] ELSE err
  ELSE err

\* ------------------------------------------------------------------------
\* extractInscriptionData
\* ------------------------------------------------------------------------
Undefined == [some |-> FALSE, val |-> <<>>]

Some(v) == [some |-> TRUE, val |-> v]

\* getKnownFieldValue(fields, tag): the value of the first field whose tag is the
\* one byte `tag`, or undefined
getKnownFieldValue(fields, tag) ==
  LET hits == {k \in 1..Len(fields) : Len(fields[k].tag) = 1 /\ fields[k].tag[1] = tag}
  IN  IF hits = {} THEN Undefined ELSE Some(fields[SetMin(hits)].value)

\* the field loop with fields.unshift in place of fields.push
RECURSIVE readFieldsNewestFirst(_, _, _)
readFieldsNewestFirst(raw, newPointer, fields) ==
  IF newPointer < Len(raw) /\ raw[newPointer + 1] # OP_0
  THEN LET tag == readPushdata(raw, newPointer) IN
       IF ~tag.ok THEN [ok |-> FALSE, fields |-> fields, pointer |-> newPointer]
       ELSE LET value == readPushdata(raw, tag.pointer) IN
            IF ~value.ok THEN [ok |-> FALSE, fields |-> fields, pointer |-> tag.pointer]
            ELSE readFieldsNewestFirst(raw, value.pointer,
                            <<[tag |-> tag.slice, value |-> value.slice]>> \o fields)
  ELSE [ok |-> TRUE, fields |-> fields, pointer |-> newPointer]

\* the field loop: tag and value are read in pairs until OP_0 or the end of raw;
\* ok is FALSE when a readPushdata failed
RECURSIVE readFields(_, _, _)
readFields(raw, newPointer, fields) ==
  IF newPointer < Len(raw) /\ raw[newPointer + 1] # OP_0
  THEN LET tag == readPushdata(raw, newPointer) IN
       IF ~tag.ok THEN [ok |-> FALSE, fields |-> fields, pointer |-> newPointer]
       ELSE LET value == readPushdata(raw, tag.pointer) IN
            IF ~value.ok THEN [ok |-> FALSE, fields |-> fields, pointer |-> tag.pointer]
            ELSE readFields(raw, value.pointer,
                            Append(fields, [tag |-> tag.slice, value |-> value.slice]))
  ELSE [ok |-> TRUE, fields |-> fields, pointer |-> newPointer]

\* an OP_0 at the pointer is skipped
skipSeparator(raw, newPointer) ==
  IF newPointer < Len(raw) /\ raw[newPointer + 1] = OP_0 THEN newPointer + 1 ELSE newPointer

\* the body loop: pushes are read until OP_ENDIF or the end of raw
RECURSIVE readBody(_, _, _)
readBody(raw, newPointer, data) ==
  IF newPointer < Len(raw) /\ raw[newPointer + 1] # OP_ENDIF
  THEN LET chunk == readPushdata(raw, newPointer) IN
       IF ~chunk.ok THEN [ok |-> FALSE, data |-> data, pointer |-> newPointer]
       ELSE readBody(raw, chunk.pointer, Append(data, chunk.slice))
  ELSE [ok |-> TRUE, data |-> data, pointer |-> newPointer]

\* only the last segment of data copied
combineDataLastSegment(data) == IF data = <<>> THEN <<>> ELSE data[Len(data)]

\* all segments of data copied into one contiguous array
combineData(data) == Flatten(data)

\* "br"
BrotliEncoding == <<98, 114>>

\* !contentTypeRaw
contentTypeMissingAlwaysEmit(contentTypeRaw) == FALSE

contentTypeMissing(contentTypeRaw) == ~contentTypeRaw.some

\* contentEncoding === 'br'
isBrotliWrongLiteral(contentEncoding) ==
  contentEncoding.some /\ contentEncoding.val = <<98, 114, 111, 116, 108, 105>>

isBrotli(contentEncoding) == contentEncoding.some /\ contentEncoding.val = BrotliEncoding

EmptyRecord ==
  [contentType |-> <<>>, fields |-> <<>>, combinedData |-> <<>>, contentEncoding |-> Undefined]

NullOutcome == [kind |-> "null", rec |-> EmptyRecord]

ThrowOutcome == [kind |-> "throw", rec |-> EmptyRecord]

\* the body of the try block: a record, null, or an exception thrown
tryExtractInscriptionData(raw, pointer) ==
  LET f == readFields(raw, pointer, <<>>) IN
  IF ~f.ok THEN ThrowOutcome
  ELSE
  LET b == readBody(raw, skipSeparator(raw, f.pointer), <<>>) IN
  IF ~b.ok THEN ThrowOutcome
  ELSE
  LET combinedData == combineData(b.data)
      contentTypeRaw == getKnownFieldValue(f.fields, content_type)
      contentEncodingRaw == getKnownFieldValue(f.fields, content_encoding)
      contentEncoding == IF contentEncodingRaw.some
                         THEN Some(uint8ArrayToSingleByteChars(contentEncodingRaw.val))
                         ELSE Undefined
      decoded == brotliDecodeUint8Array(combinedData)
  IN
  IF contentTypeMissing(contentTypeRaw) THEN NullOutcome
  ELSE IF isBrotli(contentEncoding) /\ ~decoded.ok THEN ThrowOutcome
  ELSE [kind |-> "record",
        rec |-> [contentType |-> uint8ArrayToSingleByteChars(contentTypeRaw.val),
                 fields |-> f.fields,
                 combinedData |-> IF isBrotli(contentEncoding) THEN decoded.bytes
                                  ELSE combinedData,
                 contentEncoding |-> contentEncoding]]

\* catch (ex) { console.error(ex); return null; }
rethrowException(outcome) == outcome

catchException(outcome) == IF outcome.kind = "throw" THEN NullOutcome ELSE outcome

extractInscriptionData(raw, pointer) == catchException(tryExtractInscriptionData(raw, pointer))

\* ------------------------------------------------------------------------
\* The accessors of a ParsedInscription
\* ------------------------------------------------------------------------
\* utf8BytesToUtf16String(combinedData) + ''
getContentString(rec) == utf8BytesToUtf16String(rec.combinedData) \o <<>>

getData(rec) == encodeToBase64(uint8ArrayToSingleByteChars(rec.combinedData))

\* "data:"
DataScheme == <<100, 97, 116, 97, 58>>

\* ";base64,"
Base64Marker == <<59, 98, 97, 115, 101, 54, 52, 44>>

\* `data:${contentType};base64,${fullBase64Data}`
getDataUriWithoutContentType(rec) ==
  DataScheme \o Base64Marker
  \o encodeToBase64(uint8ArrayToSingleByteChars(rec.combinedData))

getDataUri(rec) ==
  LET content == uint8ArrayToSingleByteChars(rec.combinedData)
      fullBase64Data == encodeToBase64(content)
  IN  DataScheme \o rec.contentType \o Base64Marker \o fullBase64Data

\* getMetadata(): undefined without a metadata field, else CBOR.decode(metadataRaw),
\* whose exception is the accessor's
getMetadata(rec) ==
  LET metadataRaw == getKnownFieldValue(rec.fields, metadata) IN
  IF ~metadataRaw.some THEN [kind |-> "undefined", value |-> <<>>]
  ELSE LET d == CBORdecode(metadataRaw.val) IN
       IF d.ok THEN [kind |-> "value", value |-> d.value]
       ELSE [kind |-> "throw", value |-> <<>>]

getContentEncoding(rec) == rec.contentEncoding

\* ------------------------------------------------------------------------
\* The transactions of the model
\* ------------------------------------------------------------------------
\* content type "a", metadata 7, body "hi" in one push
EnvPlain ==
  inscriptionMark \o <<1, 1, 1, 97, 1, 5, 1, 7, 0, 2, 104, 105, 104>>

\* content type "b", content encoding "b", body "x", "" and "y" in three pushes
EnvChunked ==
  inscriptionMark \o <<1, 1, 1, 98, 1, 9, 1, 98, 0, 1, 120, 0, 1, 121, 104>>

\* a metaprotocol field and a body, no content type
EnvNoType ==
  inscriptionMark \o <<1, 7, 1, 109, 0, 1, 122, 104>>

\* the value of the content type is a push of 12 bytes that the envelope does not hold
EnvTruncated ==
  inscriptionMark \o <<1, 1, 12>>

\* content type "c", content encoding "br", a metadata field that is no CBOR item,
\* body a stream of the two bytes of U+00E9
EnvBrotli ==
  inscriptionMark
  \o <<1, 1, 1, 99, 1, 9, 2, 98, 114, 1, 5, 1, 24, 0, 4, 11, 195, 169, 3, 104>>

\* content type "a", content encoding "br", body "hi", which is no stream
EnvBadBrotli ==
  inscriptionMark \o <<1, 1, 1, 97, 1, 9, 2, 98, 114, 0, 2, 104, 105, 104>>

\* content type "d", body one PUSHDATA1 push of 14 bytes that are themselves an
\* envelope: a mark, content type "e", body "z"
EnvNested ==
  inscriptionMark
  \o <<1, 1, 1, 100, 0, 76, 14>>
  \o inscriptionMark \o <<1, 1, 1, 101, 0, 1, 122, 104>>
  \o <<104>>

Envelopes ==
  {EnvPlain, EnvChunked, EnvNoType, EnvTruncated, EnvBrotli, EnvBadBrotli, EnvNested}

\* a first witness item that ends like the beginning of a mark
SignatureItem == <<171, 0, 99>>

\* vin[i] without a witness
NoWitness == [hasWitness |-> FALSE, witness |-> <<>>]

\* vin[i] with witness items that hold no mark
JunkWitness == [hasWitness |-> TRUE,
                witness |-> <<BytesToHex(SignatureItem), BytesToHex(<<3, 111, 114, 100, 0>>)>>]

\* vin[i] with a signature item and one witness item per envelope
EnvelopeInput(envs) ==
  [hasWitness |-> TRUE,
   witness |-> <<BytesToHex(SignatureItem)>> \o [k \in 1..Len(envs) |-> BytesToHex(envs[k])]]

InputsWith(k) ==
  IF k = 0 THEN {NoWitness, JunkWitness}
  ELSE {EnvelopeInput(envs) : envs \in [1..k -> Envelopes]}

\* the transactions of at most n inputs that hold at most m envelopes
RECURSIVE TransactionsUpTo(_, _)
TransactionsUpTo(n, m) ==
  IF n = 0 THEN {<<>>}
  ELSE {<<>>} \cup
       UNION {{<<vin>> \o rest : vin \in InputsWith(k), rest \in TransactionsUpTo(n - 1, m - k)}
              : k \in 0..m}

Transactions == TransactionsUpTo(MaxInputs, MaxEnvelopes)

\* the transaction of the calls made between two calls with the first transaction
OtherTransaction == <<EnvelopeInput(<<EnvChunked>>)>>

\* ------------------------------------------------------------------------
\* State
\* ------------------------------------------------------------------------
VARIABLES
  tx,               \* the transaction of the running call
  callNo,           \* the number of the running call
  firstTx,          \* the transaction of the first call
  firstResult,      \* what the first call returned
  otherCalled,      \* a call with another transaction was made after the first
  pc,               \* "loop": in the for loop of parseInscriptions; "scan": in the
                    \* while loop of parseInscriptionsWithinWitness; "done": returned;
                    \* "threw": an exception left parseInscriptions
  i,                \* the index into transaction.vin
  raw,              \* the witness bytes of vin[i]
  startPosition,    \* where the next scan starts
  vinInscriptions,  \* the inscriptions of parseInscriptionsWithinWitness
  inscriptions,     \* the inscriptions of parseInscriptions
  trace,            \* every candidate of the running call: input, mark, outcome
  arg,              \* the argument of a function that is called on its own
  ret               \* what that function returned

vars == <<tx, callNo, firstTx, firstResult, otherCalled, pc, i, raw, startPosition,
          vinInscriptions, inscriptions, trace, arg, ret>>

\* const inscriptions: ParsedInscription[] = [] of parseInscriptions
keptInscriptions(previous) == previous

newInscriptions(previous) == <<>>

\* parseInscriptions has been called with a transaction of T
InitWith(T) ==
  /\ tx \in T
  /\ callNo = 1
  /\ firstTx = tx
  /\ firstResult = <<>>
  /\ otherCalled = FALSE
  /\ pc = "loop"
  /\ i = 0
  /\ raw = <<>>
  /\ startPosition = 0
  /\ vinInscriptions = <<>>
  /\ inscriptions = <<>>
  /\ trace = <<>>
  /\ arg = <<>>
  /\ ret = <<>>

Init == InitWith(Transactions)

\* ------------------------------------------------------------------------
\* parseInscriptions and parseInscriptionsWithinWitness
\* ------------------------------------------------------------------------
\* if (vin.witness) fails: the next input
SkipInput ==
  /\ pc = "loop"
  /\ i < Len(tx)
  /\ ~tx[i + 1].hasWitness
  /\ i' = i + 1
  /\ UNCHANGED <<arg, ret, tx, callNo, firstTx, firstResult, otherCalled, pc, raw, startPosition,
                 vinInscriptions, inscriptions, trace>>

\* parseInscriptionsWithinWitness(vin.witness) is entered
EnterWitness ==
  /\ pc = "loop"
  /\ i < Len(tx)
  /\ tx[i + 1].hasWitness
  /\ raw' = hexStringToUint8Array(join(tx[i + 1].witness))
  /\ startPosition' = 0
  /\ vinInscriptions' = <<>>
  /\ pc' = "scan"
  /\ UNCHANGED <<arg, ret, tx, callNo, firstTx, firstResult, otherCalled, i, inscriptions, trace>>

\* startPosition = pointer
resumeAtMarkStart(pointer) == pointer - Len(inscriptionMark)

nextStartPosition(pointer) == pointer

\* what became of the candidate at pointer: "record" when extractInscriptionData
\* returned an inscription, else why it returned null
CandidateOutcome(inscription, buffer, pointer) ==
  IF inscription.kind = "record" THEN "record"
  ELSE IF tryExtractInscriptionData(buffer, pointer).kind = "throw" THEN "caught"
  ELSE "filtered"

\* one iteration of the while loop that finds a mark, with the try block around
\* the loop: a candidate that fails ends the witness
ScanFoundAbortingWitness ==
  /\ pc = "scan"
  /\ LET pointer == getNextInscriptionMark(raw, startPosition)
         inscription == extractInscriptionData(raw, pointer)
         failed == tryExtractInscriptionData(raw, pointer).kind = "throw"
     IN  /\ pointer # -1
         /\ pc' = "scan"
         /\ vinInscriptions' = IF inscription.kind = "record"
                               THEN Append(vinInscriptions, inscription.rec)
                               ELSE vinInscriptions
         /\ startPosition' = IF failed THEN Len(raw) ELSE nextStartPosition(pointer)
         /\ trace' = Append(trace, [input |-> i, mark |-> pointer,
                                    outcome |-> CandidateOutcome(inscription, raw,
                                                                 pointer)])
  /\ UNCHANGED <<arg, ret, tx, callNo, firstTx, firstResult, otherCalled, i, raw, inscriptions>>

\* the iteration with startPosition set behind the bytes that the extraction
\* has read
ScanFoundResumingBehindEnvelope ==
  /\ pc = "scan"
  /\ LET pointer == getNextInscriptionMark(raw, startPosition)
         inscription == extractInscriptionData(raw, pointer)
         f == readFields(raw, pointer, <<>>)
         b == readBody(raw, skipSeparator(raw, f.pointer), <<>>)
     IN  /\ pointer # -1
         /\ pc' = "scan"
         /\ vinInscriptions' = IF inscription.kind = "record"
                               THEN Append(vinInscriptions, inscription.rec)
                               ELSE vinInscriptions
         /\ startPosition' = IF f.ok /\ b.ok THEN b.pointer ELSE pointer
         /\ trace' = Append(trace, [input |-> i, mark |-> pointer,
                                    outcome |-> CandidateOutcome(inscription, raw,
                                                                 pointer)])
  /\ UNCHANGED <<arg, ret, tx, callNo, firstTx, firstResult, otherCalled, i, raw, inscriptions>>

\* one iteration of the while loop that finds a mark
ScanFound ==
  /\ pc = "scan"
  /\ LET pointer == getNextInscriptionMark(raw, startPosition)
         inscription == extractInscriptionData(raw, pointer)
     IN  /\ pointer # -1
         /\ IF inscription.kind = "throw"
            THEN /\ pc' = "threw"
                 /\ UNCHANGED <<vinInscriptions, startPosition, trace>>
            ELSE /\ pc' = "scan"
                 /\ vinInscriptions' = IF inscription.kind = "record"
                                       THEN Append(vinInscriptions, inscription.rec)
                                       ELSE vinInscriptions
                 /\ startPosition' = nextStartPosition(pointer)
                 /\ trace' = Append(trace, [input |-> i, mark |-> pointer,
                                            outcome |-> CandidateOutcome(inscription, raw,
                                                                        pointer)])
  /\ UNCHANGED <<arg, ret, tx, callNo, firstTx, firstResult, otherCalled, i, raw, inscriptions>>

\* return inscriptions.length > 0 ? inscriptions : null
withinWitnessResult(list) ==
  IF Len(list) > 0 THEN [isNull |-> FALSE, list |-> list] ELSE [isNull |-> TRUE, list |-> <<>>]

\* inscriptions.push(...vinInscriptions)
unshiftAll(list, items) == items \o list

pushAll(list, items) == list \o items

\* if (vinInscriptions)
alwaysTruthy(result) == TRUE

truthy(result) == ~result.isNull

\* the iteration that finds no mark: parseInscriptionsWithinWitness returns and
\* parseInscriptions pushes what it returned
ScanExhausted ==
  /\ pc = "scan"
  /\ getNextInscriptionMark(raw, startPosition) = -1
  /\ LET result == withinWitnessResult(vinInscriptions) IN
     IF truthy(result) /\ result.isNull
     THEN /\ pc' = "threw"
          /\ UNCHANGED <<i, inscriptions>>
     ELSE /\ pc' = "loop"
          /\ i' = i + 1
          /\ inscriptions' = IF truthy(result) THEN pushAll(inscriptions, result.list)
                             ELSE inscriptions
  /\ raw' = <<>>
  /\ startPosition' = 0
  /\ vinInscriptions' = <<>>
  /\ UNCHANGED <<arg, ret, tx, callNo, firstTx, firstResult, otherCalled, trace>>

\* return inscriptions
Return ==
  /\ pc = "loop"
  /\ i >= Len(tx)
  /\ pc' = "done"
  /\ firstResult' = IF callNo = 1 THEN inscriptions ELSE firstResult
  /\ UNCHANGED <<arg, ret, tx, callNo, firstTx, otherCalled, i, raw, startPosition,
                 vinInscriptions, inscriptions, trace>>

\* the caller calls parseInscriptions again, with the first or with another transaction
CallAgain ==
  /\ pc = "done"
  /\ callNo < MaxCalls
  /\ \E t \in {firstTx, OtherTransaction} :
       /\ tx' = t
       /\ otherCalled' = (otherCalled \/ t # firstTx)
  /\ callNo' = callNo + 1
  /\ inscriptions' = newInscriptions(inscriptions)
  /\ pc' = "loop"
  /\ i' = 0
  /\ trace' = <<>>
  /\ UNCHANGED <<arg, ret, firstTx, firstResult, raw, startPosition, vinInscriptions>>

\* one call of parseInscriptions
Next ==
  \/ SkipInput
  \/ EnterWitness
  \/ ScanFound
  \/ ScanExhausted
  \/ Return

Spec == Init /\ [][Next]_vars

\* calls of parseInscriptions one after the other, the first with a transaction
\* of one input
SingleInputTransactions == TransactionsUpTo(1, MaxEnvelopes)

InitCalls == InitWith(SingleInputTransactions)

NextCalls ==
  \/ SkipInput
  \/ EnterWitness
  \/ ScanFound
  \/ ScanExhausted
  \/ Return
  \/ CallAgain

SpecCalls == InitCalls /\ [][NextCalls]_vars

\* ------------------------------------------------------------------------
\* What the properties are stated with
\* ------------------------------------------------------------------------
\* the call has ended: it returned or an exception left it
Finished == pc \in {"done", "threw"}

\* the witness bytes of input k (counted from 0) of transaction t
InputBytes(t, k) == hexStringToUint8Array(join(t[k + 1].witness))

\* the positions just past a mark of a buffer
MarksOf(buffer) == {k + Len(inscriptionMark) : k \in MarkStarts(buffer)}

RECURSIVE Ascending(_)
Ascending(S) ==
  IF S = {} THEN <<>> ELSE <<SetMin(S)>> \o Ascending(S \ {SetMin(S)})

\* the candidates of a transaction, as the trace names them, by input and by mark
CandidatesOfInput(t, k) ==
  IF ~t[k + 1].hasWitness THEN <<>>
  ELSE LET marks == Ascending(MarksOf(InputBytes(t, k)))
       IN  [n \in 1..Len(marks) |-> [input |-> k, mark |-> marks[n]]]

CandidatesOf(t) == Flatten([k \in 1..Len(t) |-> CandidatesOfInput(t, k - 1)])

\* what the try block makes of a candidate
Attempt(t, c) == tryExtractInscriptionData(InputBytes(t, c.input), c.mark)

IsRecord(t, c) == Attempt(t, c).kind = "record"

Fails(t, c) == Attempt(t, c).kind = "throw"

\* the records of the candidates that yield one, in the order of the candidates
RECURSIVE RecordsOfCandidates(_, _)
RecordsOfCandidates(t, cs) ==
  IF cs = <<>> THEN <<>>
  ELSE (IF IsRecord(t, Head(cs)) THEN <<Attempt(t, Head(cs)).rec>> ELSE <<>>)
       \o RecordsOfCandidates(t, Tail(cs))

ExpectedRecords(t) == RecordsOfCandidates(t, CandidatesOf(t))

\* the entries of the trace that stand for a record pushed
IsRecordEntry(e) == e.outcome = "record"

RecordEntries == SelectSeq(trace, IsRecordEntry)

C2_ScanOffsetsIncrease ==
  [][(pc = "scan" /\ pc' = "scan")
       => (startPosition' > startPosition /\ startPosition' <= Len(raw))]_vars

\* the scanner returned none after two candidates of one buffer had both failed
C2_Witness ==
  /\ pc = "loop"
  /\ \E j, k \in 1..Len(trace) :
       /\ j < k
       /\ trace[j].input = trace[k].input
       /\ trace[j].input = i - 1
       /\ trace[j].outcome = "caught"
       /\ trace[k].outcome = "caught"

\* ------------------------------------------------------------------------
\* C3: a candidate whose extraction fails is the only one dropped: the call
\* returns, and its list holds the records of all other candidates of the same
\* buffer and of the other inputs, in their order.
\* ------------------------------------------------------------------------
C3_FailureIsolation ==
  Finished =>
    LET cs == CandidatesOf(tx) IN
    (\E n \in 1..Len(cs) : Fails(tx, cs[n]))
      => (pc = "done" /\ inscriptions = RecordsOfCandidates(tx, cs))

\* a returned call in which a candidate that failed is followed by a record of
\* the same buffer
C3_Witness ==
  /\ pc = "done"
  /\ \E j, k \in 1..Len(trace) :
       /\ j < k
       /\ trace[j].input = trace[k].input
       /\ trace[j].outcome = "caught"
       /\ trace[k].outcome = "record"
  /\ Len(inscriptions) = 1

\* ------------------------------------------------------------------------
\* C4: every record comes from an envelope whose fields hold a content_type
\* field (a tag of the one byte 1); a candidate without one yields no record,
\* and every candidate with one whose reads and decoding succeed yields exactly
\* one, whatever its siblings are.
\* ------------------------------------------------------------------------
\* the fields read at a candidate hold a content_type field
EnvelopeHasContentType(t, c) ==
  LET f == readFields(InputBytes(t, c.input), c.mark, <<>>)
  IN  f.ok /\ \E k \in 1..Len(f.fields) : f.fields[k].tag = <<content_type>>

HasContentTypeField(rec) ==
  \E k \in 1..Len(rec.fields) : rec.fields[k].tag = <<content_type>>

C4_ContentTypeRequired ==
  Finished =>
    LET cs == CandidatesOf(tx) IN
    /\ \A k \in 1..Len(inscriptions) : HasContentTypeField(inscriptions[k])
    /\ \A j \in 1..Len(trace) :
         trace[j].outcome = "record"
           => EnvelopeHasContentType(tx, [input |-> trace[j].input, mark |-> trace[j].mark])
    /\ Len(inscriptions) =
         Cardinality({n \in 1..Len(cs) :
                        EnvelopeHasContentType(tx, cs[n]) /\ ~Fails(tx, cs[n])})

\* a returned call in which a candidate without a content type was dropped and
\* the next candidate of the same buffer became the one record
C4_Witness ==
  /\ pc = "done"
  /\ \E j, k \in 1..Len(trace) :
       /\ j < k
       /\ trace[j].input = trace[k].input
       /\ trace[j].outcome = "filtered"
       /\ trace[k].outcome = "record"
  /\ Len(inscriptions) = 1

\* ------------------------------------------------------------------------
\* C5: the returned list is in the order of the inputs and, within an input, of
\* the offsets of the marks: record k is the record of the k-th candidate that
\* yielded one, and these candidates ascend by (input, mark).  Two well-formed
\* envelopes in one buffer yield exactly their two records, first the first.
\* ------------------------------------------------------------------------
WellFormedEnvelopes == {EnvPlain, EnvChunked, EnvBrotli}

\* the record of an envelope that is a buffer of its own
RecordOfEnvelope(env) == tryExtractInscriptionData(env, Len(inscriptionMark)).rec

C6_EmptyListWhenNothingFound ==
  (Finished /\ ExpectedRecords(tx) = <<>>) => (pc = "done" /\ inscriptions = <<>>)

\* a returned call with an input without a witness and an input whose
\* candidates all came to nothing
C6_Witness ==
  /\ pc = "done"
  /\ inscriptions = <<>>
  /\ \E k \in 1..Len(tx) : ~tx[k].hasWitness
  /\ trace # <<>>

\* ------------------------------------------------------------------------
\* C7: the body is decompressed exactly when the value of the content_encoding
\* field is the two bytes "br": then getContentString, getData and getDataUri
\* give the decompressed bytes and not the compressed ones; with another value
\* or without the field they give the concatenated body as it is, and the
\* record is emitted without any decompression.
\* ------------------------------------------------------------------------
\* the reads at a candidate succeed
EnvelopeIsRead(t, c) ==
  LET b == InputBytes(t, c.input)
      f == readFields(b, c.mark, <<>>)
  IN  f.ok /\ readBody(b, skipSeparator(b, f.pointer), <<>>).ok

\* the concatenated body pushes at a candidate
EnvelopeBody(t, c) ==
  LET b == InputBytes(t, c.input)
      f == readFields(b, c.mark, <<>>)
  IN  combineData(readBody(b, skipSeparator(b, f.pointer), <<>>).data)

\* the value of the content_encoding field at a candidate is "br"
EnvelopeIsBr(t, c) ==
  LET f == readFields(InputBytes(t, c.input), c.mark, <<>>)
      hits == {k \in 1..Len(f.fields) : f.fields[k].tag = <<content_encoding>>}
  IN  hits # {} /\ f.fields[SetMin(hits)].value = <<98, 114>>

\* the three accessors of rec give these bytes
AccessorsGive(rec, bytes) ==
  /\ getContentString(rec) = utf8BytesToUtf16String(bytes)
  /\ getData(rec) = encodeToBase64(uint8ArrayToSingleByteChars(bytes))
  /\ getDataUri(rec) = DataScheme \o rec.contentType \o Base64Marker
                       \o encodeToBase64(uint8ArrayToSingleByteChars(bytes))

C7_DecompressedExactlyWhenBr ==
  pc = "done" =>
    LET entries == RecordEntries IN
    /\ \A k \in 1..Len(inscriptions) :
         k <= Len(entries) =>
           LET c == entries[k]
               rec == inscriptions[k]
               body == EnvelopeBody(tx, c)
           IN  IF EnvelopeIsBr(tx, c)
               THEN /\ brotliDecodeUint8Array(body).ok
                    /\ AccessorsGive(rec, brotliDecodeUint8Array(body).bytes)
                    /\ ~AccessorsGive(rec, body)
               ELSE AccessorsGive(rec, body)
    /\ \A j \in 1..Len(trace) :
         LET c == [input |-> trace[j].input, mark |-> trace[j].mark] IN
         (EnvelopeIsRead(tx, c) /\ EnvelopeHasContentType(tx, c) /\ ~EnvelopeIsBr(tx, c))
           => trace[j].outcome = "record"

\* a returned call with a record that was decompressed and a record with another
\* content encoding
C7_Witness ==
  /\ pc = "done"
  /\ Len(inscriptions) = 2
  /\ \E j, k \in 1..2 :
       /\ getContentEncoding(inscriptions[j]) = Some(BrotliEncoding)
       /\ getContentEncoding(inscriptions[k]).some
       /\ getContentEncoding(inscriptions[k]) # Some(BrotliEncoding)

\* ------------------------------------------------------------------------
\* C8: a record whose metadata field is no CBOR item is emitted, and its
\* getMetadata() gives undefined and raises no error.
\* ------------------------------------------------------------------------
MetadataUndecodable(rec) ==
  \E k \in 1..Len(rec.fields) :
    /\ rec.fields[k].tag = <<metadata>>
    /\ \A j \in 1..(k - 1) : rec.fields[j].tag # <<metadata>>
    /\ ~CBORdecode(rec.fields[k].value).ok

C8_UndecodableMetadataIsAbsent ==
  pc = "done" => \A k \in 1..Len(inscriptions) :
    MetadataUndecodable(inscriptions[k]) => getMetadata(inscriptions[k]).kind = "undefined"

\* ------------------------------------------------------------------------
\* C9: a later call with the transaction of the first call returns a list equal
\* to the list of the first call, with equal accessor results, whether or not a
\* call with another transaction was made in between.
\* ------------------------------------------------------------------------
C9_SameTransactionSameResult ==
  (Finished /\ callNo > 1 /\ tx = firstTx) =>
    /\ pc = "done"
    /\ inscriptions = firstResult
    /\ \A k \in 1..Len(inscriptions) :
         k <= Len(firstResult) =>
           /\ getContentString(inscriptions[k]) = getContentString(firstResult[k])
           /\ getData(inscriptions[k]) = getData(firstResult[k])
           /\ getDataUri(inscriptions[k]) = getDataUri(firstResult[k])
           /\ getMetadata(inscriptions[k]) = getMetadata(firstResult[k])

\* the first transaction parsed again after a call with another transaction,
\* with two records
C9_Witness ==
  /\ pc = "done"
  /\ callNo > 2
  /\ tx = firstTx
  /\ tx # OtherTransaction
  /\ otherCalled
  /\ Len(inscriptions) = 2

\* ------------------------------------------------------------------------
\* C10: getDataUri() is "data:" + contentType + ";base64," + getData(), and
\* getData() is the base64 of the bytes that getContentString() decodes.
\* ------------------------------------------------------------------------
\* the digit 0..63 of a base64 character, 64 for "="
Base64Value(c) == IF c >= 65 /\ c <= 90 THEN c - 65
                  ELSE IF c >= 97 /\ c <= 122 THEN c - 97 + 26
                  ELSE IF c >= 48 /\ c <= 57 THEN c - 48 + 52
                  ELSE IF c = 43 THEN 62
                  ELSE IF c = 47 THEN 63 ELSE 64

RECURSIVE Base64Decode(_)
Base64Decode(str) ==
  IF Len(str) < 4 THEN <<>>
  ELSE LET a == Base64Value(str[1])
           b == Base64Value(str[2])
           c == Base64Value(str[3])
           d == Base64Value(str[4])
       IN  (IF c = 64 THEN <<a * 4 + b \div 16>>
            ELSE IF d = 64 THEN <<a * 4 + b \div 16, (b % 16) * 16 + c \div 4>>
            ELSE <<a * 4 + b \div 16, (b % 16) * 16 + c \div 4, (c % 4) * 64 + d>>)
           \o Base64Decode(SubSeq(str, 5, Len(str)))

\* the UTF-8 bytes of a string of characters below U+0800
RECURSIVE Utf8Encode(_)
Utf8Encode(str) ==
  IF str = <<>> THEN <<>>
  ELSE (IF str[1] < 128 THEN <<str[1]>>
        ELSE <<192 + (str[1] \div 64), 128 + (str[1] % 64)>>)
       \o Utf8Encode(Tail(str))

DataUriIsComposed(rec) ==
  /\ getDataUri(rec) = DataScheme \o rec.contentType \o Base64Marker \o getData(rec)
  /\ Base64Decode(getData(rec)) = Utf8Encode(getContentString(rec))

C10_DataUriComposition ==
  pc = "done" => \A k \in 1..Len(inscriptions) : DataUriIsComposed(inscriptions[k])

\* a returned record with a content type and a decompressed body that is not empty
C10_Witness ==
  /\ pc = "done"
  /\ \E k \in 1..Len(inscriptions) :
       /\ inscriptions[k].contentType # <<>>
       /\ getContentEncoding(inscriptions[k]) = Some(BrotliEncoding)
       /\ Base64Decode(getData(inscriptions[k])) # <<>>

\* ------------------------------------------------------------------------
\* readPushdata on its own: a push is encoded, then read back
\* ------------------------------------------------------------------------
\* bound: the number of bytes in front of the opcode
MaxLead == 2

\* the lengths of the pushes: the ends of every opcode class
PushLengths == {0, 1, 2, OP_PUSHBYTES_MAX, OP_PUSHBYTES_MAX + 1, 255, 256, 65535, 65536}

\* a payload of L bytes
Payload(L) == [k \in 1..L |-> (k * 7 + L) % 256]

\* the number v in n bytes, least significant byte first
RECURSIVE toLittleEndian(_, _)
toLittleEndian(v, n) ==
  IF n = 0 THEN <<>> ELSE <<v % 256>> \o toLittleEndian(v \div 256, n - 1)

\* the opcode and length bytes in front of a payload of L bytes
PushPrefix(L) ==
  IF L = 0 THEN <<OP_0>>
  ELSE IF L <= OP_PUSHBYTES_MAX THEN <<L>>
  ELSE IF L <= 255 THEN <<OP_PUSHDATA1>> \o toLittleEndian(L, 1)
  ELSE IF L <= 65535 THEN <<OP_PUSHDATA2>> \o toLittleEndian(L, 2)
  ELSE <<OP_PUSHDATA4>> \o toLittleEndian(L, 4)

EncodedPush(L) == PushPrefix(L) \o Payload(L)

\* the bytes in front of the opcode, and a byte behind the payload
LeadBytes(n) == [k \in 1..n |-> OP_ENDIF]

TailBytes(n) == [k \in 1..n |-> OP_PUSHDATA1]

\* a buffer with a push of len bytes at position lead, its last cut bytes
\* missing; the cursor is past bytes behind the opcode's position
PushCall(len, lead, tail, cut, past) ==
  LET whole == LeadBytes(lead) \o EncodedPush(len) \o TailBytes(tail)
  IN  [raw |-> SubSeq(whole, 1, Len(whole) - cut), pointer |-> lead + past,
       len |-> len, cut |-> cut, past |-> past]

\* the whole push with or without a byte behind it; the push with its last
\* byte, its payload, all but its opcode, or all of it missing; and the cursor
\* beyond the end of the buffer
PushCalls ==
  UNION {
    {PushCall(len, lead, tail, 0, 0) : tail \in 0..1}
    \cup {PushCall(len, lead, 0, cut, 0) :
            cut \in {1, len, Len(EncodedPush(len)) - 1, Len(EncodedPush(len))} \ {0}}
    \cup {PushCall(len, lead, 0, Len(EncodedPush(len)), 1)}
    : len \in PushLengths, lead \in 0..MaxLead }

\* no call of parseInscriptions is running
NoParseCall ==
  /\ tx = <<>>
  /\ callNo = 0
  /\ firstTx = <<>>
  /\ firstResult = <<>>
  /\ otherCalled = FALSE
  /\ i = 0
  /\ raw = <<>>
  /\ startPosition = 0
  /\ vinInscriptions = <<>>
  /\ inscriptions = <<>>
  /\ trace = <<>>

InitPush ==
  /\ NoParseCall
  /\ pc = "push"
  /\ arg \in PushCalls
  /\ ret = <<>>

\* readPushdata(raw, pointer)
ReadPush ==
  /\ pc = "push"
  /\ ret' = readPushdata(arg.raw, arg.pointer)
  /\ pc' = "pushRead"
  /\ UNCHANGED <<tx, callNo, firstTx, firstResult, otherCalled, i, raw, startPosition,
                 vinInscriptions, inscriptions, trace, arg>>

NextPush == ReadPush

SpecPush == InitPush /\ [][NextPush]_vars

\* C11: a push written with the opcode class of its length is read back as
\* exactly its bytes, and the new cursor is the old one plus the opcode and
\* length bytes plus the length of the payload; a push whose bytes are not all
\* in the buffer, or a cursor at or beyond the end of the buffer, is a failure
\* and never a shorter slice.
C11_PushdataRoundTrip ==
  pc = "pushRead" =>
    IF arg.cut = 0 /\ arg.past = 0
    THEN /\ ret.ok
         /\ ret.slice = Payload(arg.len)
         /\ ret.pointer = arg.pointer + Len(PushPrefix(arg.len)) + arg.len
    ELSE ~ret.ok

\* a push of 256 bytes behind a two-byte length was read back from the middle
\* of a buffer
C11_Witness ==
  /\ pc = "pushRead"
  /\ arg.len = 256 /\ arg.cut = 0 /\ arg.pointer > 0
  /\ Len(arg.raw) > arg.pointer + 3 + 256
  /\ ret.ok /\ Len(ret.slice) = 256 /\ ret.slice[256] = Payload(256)[256]

\* ------------------------------------------------------------------------
\* extractInscriptionData on its own: an envelope is written, then extracted
\* ------------------------------------------------------------------------
\* bound: the number of fields of an envelope
MaxFields == 2

\* bound: the number of body chunks of an envelope
MaxChunks == 2

\* the bytes as one push
PushOf(bytes) == PushPrefix(Len(bytes)) \o bytes

\* the sequences of at most n elements of S
RECURSIVE SeqsUpTo(_, _)
SeqsUpTo(S, n) ==
  IF n = 0 THEN {<<>>}
  ELSE LET shorter == SeqsUpTo(S, n - 1)
       IN  shorter \cup {Append(s, x) : s \in shorter, x \in S}

\* tags: content_type, an unrecognized tag, an unrecognized tag of two bytes
FieldTags == {<<content_type>>, <<13>>, <<content_type, content_type>>}

\* values: no bytes, and bytes that are OP_0 and OP_ENDIF
FieldValues == {<<>>, <<OP_0, OP_ENDIF>>}

FieldPairs == {[tag |-> t, value |-> v] : t \in FieldTags, v \in FieldValues}

BodyChunks == {<<>>, <<120>>, <<121, OP_ENDIF>>}

\* what follows the fields:
\*   "body":       the separator, the chunks, and OP_ENDIF if endif
\*   "exhausted":  nothing, the buffer ends
\*   "endif":      OP_ENDIF where a tag would be
\*   "novalue":    a tag, then the buffer ends
\*   "shortvalue": a tag and a value of two bytes of which one is there
\*   "shortchunk": the separator, the chunks and a chunk of two bytes of which
\*                 one is there
EnvelopeEndings == {"body", "exhausted", "endif", "novalue", "shortvalue", "shortchunk"}

RECURSIVE PushesOfPairs(_)
PushesOfPairs(pairs) ==
  IF pairs = <<>> THEN <<>>
  ELSE PushOf(Head(pairs).tag) \o PushOf(Head(pairs).value) \o PushesOfPairs(Tail(pairs))

RECURSIVE PushesOfChunks(_)
PushesOfChunks(chunks) ==
  IF chunks = <<>> THEN <<>>
  ELSE PushOf(Head(chunks)) \o PushesOfChunks(Tail(chunks))

EndingBytes(ending, chunks, endif) ==
  CASE ending = "body" ->
         <<OP_0>> \o PushesOfChunks(chunks) \o (IF endif THEN <<OP_ENDIF>> ELSE <<>>)
    [] ending = "exhausted" -> <<>>
    [] ending = "endif" -> <<OP_ENDIF>>
    [] ending = "novalue" -> PushOf(<<13>>)
    [] ending = "shortvalue" -> PushOf(<<13>>) \o <<2, 97>>
    [] ending = "shortchunk" -> <<OP_0>> \o PushesOfChunks(chunks) \o <<2, 120>>

\* the arguments of extractInscriptionData: the envelope in raw, the pointer
\* behind its mark
ExtractCall(pairs, ending, chunks, endif) ==
  [raw |-> inscriptionMark \o PushesOfPairs(pairs) \o EndingBytes(ending, chunks, endif),
   pointer |-> Len(inscriptionMark),
   pairs |-> pairs, ending |-> ending, chunks |-> chunks, endif |-> endif]

\* what follows the fields: the ending, the chunks, and whether OP_ENDIF is there
EnvelopeTails ==
  {<<"body", chunks, endif>> : chunks \in SeqsUpTo(BodyChunks, MaxChunks), endif \in BOOLEAN}
  \cup {<<"shortchunk", chunks, FALSE>> : chunks \in SeqsUpTo(BodyChunks, MaxChunks)}
  \cup {<<ending, <<>>, FALSE>> : ending \in EnvelopeEndings \ {"body", "shortchunk"}}

InitExtract ==
  /\ NoParseCall
  /\ pc = "extract"
  /\ \E pairs \in SeqsUpTo(FieldPairs, MaxFields), tail \in EnvelopeTails :
       arg = ExtractCall(pairs, tail[1], tail[2], tail[3])
  /\ ret = <<>>

\* extractInscriptionData(raw, pointer): what it returns, and whether its catch
\* block ran
Extract ==
  /\ pc = "extract"
  /\ ret' = [inscription |-> extractInscriptionData(arg.raw, arg.pointer),
             caught |-> tryExtractInscriptionData(arg.raw, arg.pointer).kind = "throw"]
  /\ pc' = "extracted"
  /\ UNCHANGED <<tx, callNo, firstTx, firstResult, otherCalled, i, raw, startPosition,
                 vinInscriptions, inscriptions, trace, arg>>

NextExtract == Extract

SpecExtract == InitExtract /\ [][NextExtract]_vars

\* the envelope has a field of tag content_type
HasContentTypePair(pairs) ==
  \E k \in 1..Len(pairs) : pairs[k].tag = <<content_type>>

\* the position behind the fields of the envelope
BehindFields(call) == call.pointer + Len(PushesOfPairs(call.pairs))

\* C12: the fields are read in pairs of tag and value, one field per pair, so
\* the fields of the record are the pairs of the envelope in their order, tags
\* that are not recognized included; the field loop stops exactly at an OP_0
\* where a tag would be or at the end of the buffer, and not at an OP_ENDIF; a
\* separator is skipped by one byte; an envelope of no fields that starts with
\* the separator is read without a failure and is dropped only for its missing
\* content type; a tag whose value is missing or cut short aborts the envelope
\* and no field of it is returned.
C12_FieldsArePairsInOrder ==
  pc = "extracted" =>
    LET read == readFields(arg.raw, arg.pointer, <<>>) IN
    CASE arg.ending \in {"body", "exhausted"} ->
           /\ ~ret.caught
           /\ read.ok /\ read.fields = arg.pairs /\ read.pointer = BehindFields(arg)
           /\ skipSeparator(arg.raw, read.pointer)
                = BehindFields(arg) + (IF arg.ending = "body" THEN 1 ELSE 0)
           /\ IF HasContentTypePair(arg.pairs)
              THEN /\ ret.inscription.kind = "record"
                   /\ ret.inscription.rec.fields = arg.pairs
              ELSE ret.inscription = NullOutcome
      [] arg.ending \in {"endif", "novalue", "shortvalue"} ->
           /\ ret.caught
           /\ ret.inscription = NullOutcome
      [] OTHER -> TRUE

\* an envelope of two fields, the first of a tag that is not recognized and
\* with no value, was extracted with both fields in their order
C12_Witness ==
  /\ pc = "extracted"
  /\ arg.ending = "body"
  /\ Len(arg.pairs) = 2
  /\ arg.pairs[1] = [tag |-> <<13>>, value |-> <<>>]
  /\ arg.pairs[2].tag = <<content_type>>
  /\ ret.inscription.kind = "record"
  /\ ret.inscription.rec.fields = arg.pairs

\* the chunks one behind the other
RECURSIVE ChunksInOrder(_)
ChunksInOrder(chunks) ==
  IF chunks = <<>> THEN <<>> ELSE Head(chunks) \o ChunksInOrder(Tail(chunks))

RECURSIVE SumOfLengths(_)
SumOfLengths(chunks) ==
  IF chunks = <<>> THEN 0 ELSE Len(Head(chunks)) + SumOfLengths(Tail(chunks))

\* C13: the body is read from the cursor that the fields and the separator
\* left, push by push, until the byte at the cursor is OP_ENDIF or the buffer
\* ends; the body of the record is the chunks one behind the other in the order
\* read, as long as the chunks together, an empty chunk adding nothing; an
\* envelope whose buffer ends with no OP_ENDIF is emitted all the same when it
\* has a content type.
C13_BodyIsChunksInOrder ==
  pc = "extracted" =>
    CASE arg.ending \in {"body", "exhausted"} ->
           LET start == BehindFields(arg) + (IF arg.ending = "body" THEN 1 ELSE 0)
               body == readBody(arg.raw, start, <<>>)
           IN  /\ body.ok
               /\ body.data = arg.chunks
               /\ body.pointer = start + Len(PushesOfChunks(arg.chunks))
               /\ body.pointer = Len(arg.raw) - (IF arg.endif THEN 1 ELSE 0)
               /\ IF HasContentTypePair(arg.pairs)
                  THEN /\ ret.inscription.kind = "record"
                       /\ ret.inscription.rec.combinedData = ChunksInOrder(arg.chunks)
                       /\ Len(ret.inscription.rec.combinedData) = SumOfLengths(arg.chunks)
                  ELSE ret.inscription = NullOutcome
      [] arg.ending = "shortchunk" ->
           /\ ret.caught
           /\ ret.inscription = NullOutcome
      [] OTHER -> TRUE

\* an envelope with a content type, an empty chunk and a chunk of two bytes,
\* whose buffer ends with no OP_ENDIF, was emitted with the two bytes as body
C13_Witness ==
  /\ pc = "extracted"
  /\ arg.ending = "body" /\ ~arg.endif
  /\ HasContentTypePair(arg.pairs)
  /\ arg.chunks = << <<>>, <<121, OP_ENDIF>> >>
  /\ arg.raw[Len(arg.raw)] = OP_ENDIF
  /\ ret.inscription.kind = "record"
  /\ ret.inscription.rec.combinedData = <<121, OP_ENDIF>>

\* ------------------------------------------------------------------------
\* the marks that parseInscriptionsWithinWitness examines
\* ------------------------------------------------------------------------
\* the input and the mark of every candidate examined so far
ExaminedMarks == [n \in 1..Len(trace) |-> [input |-> trace[n].input, mark |-> trace[n].mark]]

\* the mark found last in the buffer of the running input, 0 if none yet
MostRecentMark ==
  IF trace # <<>> /\ trace[Len(trace)].input = i THEN trace[Len(trace)].mark ELSE 0

\* C14: the marks that parseInscriptionsWithinWitness examines are the marks of
\* the buffer, each once and in ascending order, whatever the extractions read
\* or returned: every scan starts at the mark found last (at 0 for the first),
\* and a mark that lies in the fields or the body of an earlier envelope is
\* examined like any other.
C14_EveryMarkExaminedOnce ==
  /\ pc = "scan" => startPosition = MostRecentMark
  /\ pc = "done" => ExaminedMarks = CandidatesOf(tx)

\* the position at which the extraction at the mark stopped reading
ExtractionEnd(buffer, mark) ==
  readBody(buffer, skipSeparator(buffer, readFields(buffer, mark, <<>>).pointer), <<>>).pointer

\* a mark inside the body of an envelope that gave a record was examined after
\* it and gave a second record
C14_Witness ==
  /\ pc = "done"
  /\ \E n \in 1..(Len(trace) - 1) :
       /\ trace[n].input = trace[n + 1].input
       /\ trace[n].outcome = "record"
       /\ trace[n + 1].outcome = "record"
       /\ trace[n + 1].mark < ExtractionEnd(InputBytes(tx, trace[n].input), trace[n].mark)
  /\ Len(inscriptions) = 2

\* ------------------------------------------------------------------------
\* MooncatParser.parse: the traits that are selected from the bytes of catHash
\* (bytes[n] of the code is bytes[n + 1] here)
\* ------------------------------------------------------------------------
\* bound: the number of bytes of a catHash (at least 8)
MaxCatBytes == 9

\* const genesis = bytes[0] === 79
genesis(bytes) == bytes[1] = 79

orangeLaserEyes(bytes) == bytes[6] >= 0 /\ bytes[6] <= 63

\* the range of red laser eyes starting one too late
redLaserEyesFrom65(bytes) == bytes[6] >= 65 /\ bytes[6] <= 127

redLaserEyes(bytes) == bytes[6] >= 64 /\ bytes[6] <= 127

greenLaserEyes(bytes) == bytes[6] >= 128 /\ bytes[6] <= 191

blueLaserEyes(bytes) == bytes[6] >= 192 /\ bytes[6] <= 255

block9Background(bytes) == bytes[7] >= 0 /\ bytes[7] <= 25

cyberpunkBackground(bytes) == bytes[7] >= 26 /\ bytes[7] <= 76

whitepaperBackground(bytes) == bytes[7] >= 77 /\ bytes[7] <= 153

orangeBackground(bytes) == bytes[7] >= 154 /\ bytes[7] <= 255

crown(bytes) == bytes[8] >= 120 /\ bytes[8] <= 145

\* const inverted = k >= 128, with k = bytes[1]
inverted(bytes) == bytes[2] >= 128

\* const designIndex = k % 128
designIndex(bytes) == bytes[2] % 128

\* the if chain that sets laserEyesName; "throw" is its last else branch
laserEyesName(bytes) ==
  IF redLaserEyes(bytes) THEN "red"
  ELSE IF greenLaserEyes(bytes) THEN "green"
  ELSE IF blueLaserEyes(bytes) THEN "blue"
  ELSE IF orangeLaserEyes(bytes) THEN "orange"
  ELSE "throw"

\* let backgroundName = 'orange', and the if chain that sets it
backgroundName(bytes) ==
  IF block9Background(bytes) THEN "block9"
  ELSE IF cyberpunkBackground(bytes) THEN "cyberpunk"
  ELSE IF whitepaperBackground(bytes) THEN "whitepaper"
  ELSE "orange"

genderName(bytes) == IF inverted(bytes) THEN "female" ELSE "male"

crownName(bytes) ==
  IF crown(bytes) THEN (IF orangeBackground(bytes) THEN "diamond" ELSE "gold") ELSE "none"

\* the values at the ends of the ranges
LaserEyesEnds == {0, 63, 64, 127, 128, 191, 192, 255}

BackgroundEnds == {0, 25, 26, 76, 77, 153, 154, 255}

DesignEnds == {0, 127, 128, 255}

\* bytes[0] and bytes[7]: the genesis cat with a crown, and neither
GenesisAndCrown == {<<79, 120>>, <<0, 146>>}

\* the bytes of a catHash: k, bytes[5], bytes[6], bytes[0] and bytes[7], and
\* extra bytes behind the eighth
CatHashBytes(k, eyes, background, gc, extra) ==
  <<gc[1], k, 17, 34, 51, eyes, background, gc[2]>> \o [n \in 1..extra |-> 255]

\* every value of bytes[5], of bytes[6] and of bytes[1], each with the values
\* at the ends of the ranges of the other two
CatHashChoices ==
  {<<k, eyes, background>> : eyes \in 0..255, background \in BackgroundEnds, k \in DesignEnds}
  \cup {<<k, eyes, background>> : eyes \in LaserEyesEnds, background \in 0..255, k \in DesignEnds}
  \cup {<<k, eyes, background>> : eyes \in {63, 64}, background \in {25, 26}, k \in 0..255}

InitCat ==
  /\ NoParseCall
  /\ pc = "cat"
  /\ \E c \in CatHashChoices, gc \in GenesisAndCrown, extra \in 0..(MaxCatBytes - 8) :
       arg = CatHashBytes(c[1], c[2], c[3], gc, extra)
  /\ ret = <<>>

\* MooncatParser.parse(catHash, feeRate), as far as the traits of the laser
\* eyes, the background, the crown, the gender and the design are concerned
ParseCat ==
  /\ pc = "cat"
  /\ ret' = [threw |-> laserEyesName(arg) = "throw",
             laserEyes |-> {name \in {"orange", "red", "green", "blue"} :
                              \/ name = "orange" /\ orangeLaserEyes(arg)
                              \/ name = "red" /\ redLaserEyes(arg)
                              \/ name = "green" /\ greenLaserEyes(arg)
                              \/ name = "blue" /\ blueLaserEyes(arg)},
             backgrounds |-> {name \in {"block9", "cyberpunk", "whitepaper", "orange"} :
                                \/ name = "block9" /\ block9Background(arg)
                                \/ name = "cyberpunk" /\ cyberpunkBackground(arg)
                                \/ name = "whitepaper" /\ whitepaperBackground(arg)
                                \/ name = "orange" /\ orangeBackground(arg)},
             laserEyesName |-> laserEyesName(arg),
             backgroundName |-> backgroundName(arg),
             designIndex |-> designIndex(arg),
             genesis |-> genesis(arg),
             genderName |-> genderName(arg),
             crownName |-> crownName(arg)]
  /\ pc' = "catParsed"
  /\ UNCHANGED <<tx, callNo, firstTx, firstResult, otherCalled, i, raw, startPosition,
                 vinInscriptions, inscriptions, trace, arg>>

NextCat == ParseCat

SpecCat == InitCat /\ [][NextCat]_vars

\* the name of the quarter of 0..255 that holds the byte
QuarterName(byte) == <<"orange", "red", "green", "blue">>[(byte \div 64) + 1]

\* the name of the background whose range holds the byte
RangeName(byte) ==
  <<"block9", "cyberpunk", "whitepaper", "orange">>[
     1 + Cardinality({low \in {26, 77, 154} : low <= byte})]

\* C15: for a catHash of at least 8 bytes, exactly one of the four laser eye
\* flags is set, the one of the quarter of 0..255 that holds byte 5, and
\* laserEyesName is its name, so the branch that throws 'This should never
\* never happen' is not taken; exactly one of the four background flags is
\* set, the one whose range (0..25, 26..76, 77..153, 154..255) holds byte 6,
\* and backgroundName is its name; designIndex is byte 1 modulo 128 and lies in
\* 0..127.
C15_OneLaserEyeOneBackground ==
  pc = "catParsed" =>
    /\ Len(arg) >= 8
    /\ ret.laserEyes = {QuarterName(arg[6])}
    /\ ret.laserEyesName = QuarterName(arg[6])
    /\ ~ret.threw
    /\ ret.backgrounds = {RangeName(arg[7])}
    /\ ret.backgroundName = RangeName(arg[7])
    /\ ret.designIndex \in 0..127
    /\ ret.designIndex = arg[2] - (IF arg[2] >= 128 THEN 128 ELSE 0)

\* a catHash of nine bytes with byte 5 = 64, byte 6 = 153 and byte 1 = 255 was
\* parsed: red laser eyes, the whitepaper background, design 127
C15_Witness ==
  /\ pc = "catParsed"
  /\ Len(arg) = 9
  /\ arg[6] = 64 /\ arg[7] = 153 /\ arg[2] = 255
  /\ ret.laserEyesName = "red"
  /\ ret.backgroundName = "whitepaper"
  /\ ret.designIndex = 127

=============================================================================
